---- MODULE Spec2Model ----
(***************************************************************************)
(* hed: extraction of one release's notes from a changelog.                *)
(*                                                                         *)
(* Four components are modelled, each with a specification of its own:    *)
(*   SpecExtract  operations.extract_release driven by cli._main           *)
(*   SpecDoc      operations.normalize_headings / update_title /          *)
(*                remove_softbreaks on a mistletoe token tree              *)
(*   SpecGit      git.find_previous_tag on a commit DAG with tags          *)
(*   SpecMain     cli._main, one run from its options to its exit          *)
(***************************************************************************)
EXTENDS Integers, Sequences, FiniteSets, TLC

VARIABLES
    \* ---- extract_release and its caller (operations.py 24-42, cli.py 202-206)
    io,             \* the lines of the changelog stream, in order
    start_pattern,  \* compiled start pattern
    end_pattern,    \* compiled end pattern
    consumed,       \* number of lines already read from io (forward only)
    yielded,        \* positions in io of the lines the generator has yielded
    gen,            \* generator position: "dropping" | "taking" | "finished" | "raised"
    raised,         \* the exception in flight / last raised, or NoError
    text,           \* cli: the joined release text
    exited,         \* cli: TRUE once the process has ended
    exit_code,      \* cli: the exit status once exited
    stderr,         \* cli: messages printed to standard error
    \* ---- the token tree and the passes over it (operations.py 45-98)
    document,       \* the mistletoe Document, a tree of tokens
    docPc,          \* "idle" | "parsing" | "ready"
    snapshot,       \* history: the document as it was before the last pass
    lastOp,         \* history: the last pass applied, or "none"
    lastTitle,      \* history: the title given to the last update_title
    \* ---- the repository and find_previous_tag (git.py 21-46)
    commits,        \* commits[c]: the parents of commit c, first parent first
    tags,           \* tag name -> the commit the tag peels to
    gitPc,          \* "idle" | "open" | "called"
    tag_name,       \* the argument of the last find_previous_tag
    result,         \* what the last find_previous_tag returned
    \* ---- one run of cli._main (cli.py 172-236)
    pc,             \* the statement of _main the run is at, "exited" | "done"
    main_tag,           \* _main's local tag
    main_diff_url,      \* _main's local diff_url
    main_previous_tag,  \* _main's local previous_tag
    main_title,         \* _main's local title
    main_softbreak,     \* _main's local softbreak
    stdout,         \* what print_stdout has written, one entry per call
    trace           \* history: the steps the run has performed, in order

extractVars == <<io, start_pattern, end_pattern, consumed, yielded, gen, text>>
cliVars == <<raised, exited, exit_code, stderr>>
docVars == <<document, docPc, snapshot, lastOp, lastTitle>>
gitVars == <<commits, tags, gitPc, tag_name, result>>
mainVars == <<pc, main_tag, main_diff_url, main_previous_tag, main_title,
              main_softbreak, stdout, trace>>
vars == <<extractVars, cliVars, docVars, gitVars, mainVars>>

(***************************************************************************)
(* Bounds                                                                  *)
(***************************************************************************)
MaxLines == 3
MaxNodes == 4
MaxLevel == 3
MaxTitleLen == 2
MaxCommits == 3

(***************************************************************************)
(* Small helpers                                                           *)
(***************************************************************************)
NoError == [type |-> "none"]

SeqsUpTo(S, n) == UNION {[1..k -> S] : k \in 0..n}

IsPrefix(p, s) == Len(p) <= Len(s) /\ \A i \in 1..Len(p) : p[i] = s[i]

(***************************************************************************)
(* Lines and patterns.  A line is its characters followed by its          *)
(* terminator; only the last line of a stream may lack the terminator.     *)
(* A pattern is a literal tested with re.match, i.e. at the start of the   *)
(* line, not as a full-line match.                                         *)
(***************************************************************************)
NL == "\n"

LineBodies == {<<"#", "1">>, <<"#", "2">>, <<"x">>, <<>>}

TerminatedLines == {b \o <<NL>> : b \in LineBodies}

UnterminatedLines == LineBodies \ {<<>>}

\* Every stream a text file can be iterated into.
Streams ==
    {s \in SeqsUpTo(TerminatedLines \cup UnterminatedLines, MaxLines) :
        \A i \in 1..Len(s) : i < Len(s) => s[i] \in TerminatedLines}

StartPatterns == {<<"#", "1">>, <<"#", "2">>, <<"x">>}

EndPatterns == {<<"#">>, <<"#", "2">>, <<"x">>, <<>>}

\* re.Pattern.match(line): the pattern matches at the beginning of the line.
Match(pattern, line) == IsPrefix(pattern, line)

\* "".join(lines)
RECURSIVE Join(_)
Join(ls) == IF ls = <<>> THEN <<>> ELSE Head(ls) \o Join(Tail(ls))

YieldedLines == [k \in 1..Len(yielded) |-> io[yielded[k]]]

(***************************************************************************)
(* Idle values of the components a specification does not exercise.        *)
(***************************************************************************)
NoDocument == [kind |-> "none"]

DocIdle ==
    /\ document = NoDocument
    /\ docPc = "idle"
    /\ snapshot = NoDocument
    /\ lastOp = "none"
    /\ lastTitle = <<>>

NoResult == [kind |-> "unset"]

GitIdle ==
    /\ commits = <<>>
    /\ tags = <<>>
    /\ gitPc = "idle"
    /\ tag_name = ""
    /\ result = NoResult

NotRead == [kind |-> "unread"]

MainIdle ==
    /\ pc = "idle"
    /\ main_tag = NotRead
    /\ main_diff_url = NotRead
    /\ main_previous_tag = NotRead
    /\ main_title = NotRead
    /\ main_softbreak = NotRead
    /\ stdout = <<>>
    /\ trace = <<>>

ExtractIdle ==
    /\ io = <<>>
    /\ start_pattern = <<>>
    /\ end_pattern = <<>>
    /\ consumed = 0
    /\ yielded = <<>>
    /\ gen = "idle"
    /\ text = <<"unset">>

(***************************************************************************)
(* extract_release: a generator.  dropwhile skips the lines that do not    *)
(* match start_pattern, the first matching line is yielded, then takewhile *)
(* yields lines until one matches end_pattern or the stream ends.          *)
(***************************************************************************)
PatternNotFoundError(pattern) == [type |-> "PatternNotFoundError", pattern |-> pattern]

\* dropwhile: the predicate `not start_pattern.match(x)` holds, the line is dropped.
DropLine ==
    /\ gen = "dropping"
    /\ consumed < Len(io)
    /\ ~Match(start_pattern, io[consumed + 1])
    /\ consumed' = consumed + 1
    /\ UNCHANGED <<io, start_pattern, end_pattern, yielded, gen, text, cliVars, docVars, gitVars, mainVars>>

\* Mutant: the start line is consumed but not yielded (exclusive start).
YieldStart_Exclusive ==
    /\ gen = "dropping"
    /\ consumed < Len(io)
    /\ Match(start_pattern, io[consumed + 1])
    /\ consumed' = consumed + 1
    /\ gen' = "taking"
    /\ UNCHANGED <<io, start_pattern, end_pattern, yielded, text, cliVars, docVars, gitVars, mainVars>>

\* yield next(capture): the first line matching start_pattern.
YieldStart ==
    /\ gen = "dropping"
    /\ consumed < Len(io)
    /\ Match(start_pattern, io[consumed + 1])
    /\ consumed' = consumed + 1
    /\ yielded' = Append(yielded, consumed + 1)
    /\ gen' = "taking"
    /\ UNCHANGED <<io, start_pattern, end_pattern, text, cliVars, docVars, gitVars, mainVars>>

\* Mutant: the exhausted stream ends the generator silently (StopIteration
\* not translated into PatternNotFoundError).
RaiseNotFound_Silent ==
    /\ gen = "dropping"
    /\ consumed = Len(io)
    /\ gen' = "finished"
    /\ UNCHANGED <<io, start_pattern, end_pattern, consumed, yielded, text, cliVars, docVars, gitVars, mainVars>>

\* next(capture) raised StopIteration: raise PatternNotFoundError(start_pattern).
RaiseNotFound ==
    /\ gen = "dropping"
    /\ consumed = Len(io)
    /\ gen' = "raised"
    /\ raised' = PatternNotFoundError(start_pattern)
    /\ UNCHANGED <<io, start_pattern, end_pattern, consumed, yielded, text,
                   exited, exit_code, stderr, docVars, gitVars, mainVars>>

\* takewhile: the predicate `not end_pattern.match(x)` holds, the line is yielded.
TakeLine ==
    /\ gen = "taking"
    /\ consumed < Len(io)
    /\ ~Match(end_pattern, io[consumed + 1])
    /\ consumed' = consumed + 1
    /\ yielded' = Append(yielded, consumed + 1)
    /\ UNCHANGED <<io, start_pattern, end_pattern, gen, text, cliVars, docVars, gitVars, mainVars>>

\* Mutant: the line matching end_pattern is yielded before stopping.
StopAtEndPattern_Inclusive ==
    /\ gen = "taking"
    /\ consumed < Len(io)
    /\ Match(end_pattern, io[consumed + 1])
    /\ consumed' = consumed + 1
    /\ yielded' = Append(yielded, consumed + 1)
    /\ gen' = "finished"
    /\ UNCHANGED <<io, start_pattern, end_pattern, text, cliVars, docVars, gitVars, mainVars>>

\* takewhile: the line matches end_pattern; it is consumed, not yielded, and
\* the generator is exhausted.
StopAtEndPattern ==
    /\ gen = "taking"
    /\ consumed < Len(io)
    /\ Match(end_pattern, io[consumed + 1])
    /\ consumed' = consumed + 1
    /\ gen' = "finished"
    /\ UNCHANGED <<io, start_pattern, end_pattern, yielded, text, cliVars, docVars, gitVars, mainVars>>

\* takewhile: the stream is exhausted; the generator returns normally.
StopAtEof ==
    /\ gen = "taking"
    /\ consumed = Len(io)
    /\ gen' = "finished"
    /\ UNCHANGED <<io, start_pattern, end_pattern, consumed, yielded, text, cliVars, docVars, gitVars, mainVars>>

(***************************************************************************)
(* cli._main, lines 202-206: join the generator's lines, or abort.         *)
(***************************************************************************)
\* text = "".join(extract_release(f, start_pattern, end_pattern))
MainJoin ==
    /\ gen = "finished"
    /\ ~exited
    /\ text = <<"unset">>
    /\ text' = Join(YieldedLines)
    /\ UNCHANGED <<io, start_pattern, end_pattern, consumed, yielded, gen, cliVars, docVars, gitVars, mainVars>>

\* except PatternNotFoundError as exc: abort(f"No match for tag ...", exc=exc, code=1)
\* abort prints the message and the exception chain to stderr, then sys.exit(code).
MainAbortNoMatch ==
    /\ gen = "raised"
    /\ ~exited
    /\ stderr' = stderr \o <<[msg |-> "No match for tag", exc |-> raised]>>
    /\ exited' = TRUE
    /\ exit_code' = 1
    /\ UNCHANGED <<extractVars, raised, docVars, gitVars, mainVars>>

InitExtract ==
    /\ MainIdle
    /\ io \in Streams
    /\ start_pattern \in StartPatterns
    /\ end_pattern \in EndPatterns
    /\ consumed = 0
    /\ yielded = <<>>
    /\ gen = "dropping"
    /\ raised = NoError
    /\ text = <<"unset">>
    /\ exited = FALSE
    /\ exit_code = 0
    /\ stderr = <<>>
    /\ DocIdle
    /\ GitIdle

NextExtract ==
    \/ DropLine
    \/ YieldStart
    \/ RaiseNotFound
    \/ TakeLine
    \/ StopAtEndPattern
    \/ StopAtEof
    \/ MainJoin
    \/ MainAbortNoMatch

SpecExtract == InitExtract /\ [][NextExtract]_vars

(***************************************************************************)
(* Properties of extract_release                                           *)
(***************************************************************************)
HasStart == \E i \in 1..Len(io) : Match(start_pattern, io[i])

\* Position of the earliest line matching start_pattern.
FirstStart ==
    CHOOSE i \in 1..Len(io) :
        /\ Match(start_pattern, io[i])
        /\ \A j \in 1..(i - 1) : ~Match(start_pattern, io[j])

\* Position of the first line after position i matching end_pattern, or one
\* past the last line when there is none.
FirstEndAfter(i) ==
    IF \E j \in (i + 1)..Len(io) : Match(end_pattern, io[j])
    THEN CHOOSE j \in (i + 1)..Len(io) :
            /\ Match(end_pattern, io[j])
            /\ \A k \in (i + 1)..(j - 1) : ~Match(end_pattern, io[k])
    ELSE Len(io) + 1

ExpectedRun == [k \in 1..(FirstEndAfter(FirstStart) - FirstStart) |-> FirstStart + k - 1]

\* C1: extract_release yields exactly the contiguous run of lines that begins
\* with the earliest line matching the start pattern (included) and runs up
\* to, not including, the first later line matching the end pattern, or
\* through the last line when no later line matches; the latter is not an
\* error.  The caller's text is the concatenation of that run.
C1_ExtractYieldsRun ==
    /\ gen = "finished" => (HasStart /\ yielded = ExpectedRun)
    /\ HasStart => gen # "raised"
    /\ text # <<"unset">> =>
          text = Join([k \in 1..Len(ExpectedRun) |-> io[ExpectedRun[k]]])

\* C1 witness: a finished extraction that skipped a line, yielded several
\* lines and ended at the end of the stream, no later line matching.
C1_Witness ==
    /\ gen = "finished"
    /\ text # <<"unset">>
    /\ Len(yielded) >= 2
    /\ yielded[1] > 1
    /\ consumed = Len(io)
    /\ \A j \in (yielded[1] + 1)..Len(io) : ~Match(end_pattern, io[j])

\* C2: when no line matches the start pattern, extract_release fails with
\* PatternNotFoundError carrying the pattern, nothing has been yielded before
\* the failure, and the command line exits with code 1.
C2_NotFoundBeforeOutput ==
    /\ gen = "raised" =>
          /\ ~HasStart
          /\ yielded = <<>>
          /\ raised = PatternNotFoundError(start_pattern)
    /\ ~HasStart =>
          /\ yielded = <<>>
          /\ gen \in {"dropping", "raised"}
          /\ text = <<"unset">>
          /\ exited => exit_code = 1
    /\ exited => gen = "raised"

\* C2 witness: a non-empty stream without a start line, the failure raised
\* and the process exited.
C2_Witness ==
    /\ ~HasStart
    /\ Len(io) >= 2
    /\ gen = "raised"
    /\ exited
    /\ exit_code = 1

\* C3 as stated: no line of a successful result matches the end pattern, the
\* first line included, and no line of the result comes after a line of the
\* stream that matches the end pattern.
C3_NoEndLineAtAll ==
    gen = "finished" =>
        \A k \in 1..Len(yielded) :
            /\ ~Match(end_pattern, io[yielded[k]])
            /\ \A j \in 1..(yielded[k] - 1) : ~Match(end_pattern, io[j])

\* C3 amended: no line of the result other than its first line matches the
\* end pattern, and no line of the result comes after a line that matches
\* the end pattern and lies after the start line.
C3_NoEndLineAfterStart ==
    \A k \in 2..Len(yielded) :
        /\ ~Match(end_pattern, io[yielded[k]])
        /\ \A j \in (yielded[1] + 1)..(yielded[k] - 1) : ~Match(end_pattern, io[j])

\* C3 witness: a successful result of several lines whose first line matches
\* the end pattern and which follows an earlier line matching it.
C3_Witness ==
    /\ gen = "finished"
    /\ Len(yielded) >= 2
    /\ Match(end_pattern, io[yielded[1]])
    /\ \E j \in 1..(yielded[1] - 1) : Match(end_pattern, io[j])

(***************************************************************************)
(* The token tree.  A token has a kind, ordered children (empty for a     *)
(* leaf), and by kind a heading level, a soft/hard flag or text content.   *)
(* Block containers (Document, Quote) hold blocks; Heading, Paragraph and  *)
(* Emphasis hold span tokens.                                              *)
(***************************************************************************)
Token(kind, level, soft, content, children) ==
    [kind |-> kind, level |-> level, soft |-> soft, content |-> content,
     children |-> children]

Document(children) == Token("Document", 0, FALSE, <<>>, children)
Quote(children) == Token("Quote", 0, FALSE, <<>>, children)
Heading(level, children) == Token("Heading", level, FALSE, <<>>, children)
Paragraph(children) == Token("Paragraph", 0, FALSE, <<>>, children)
Emphasis(children) == Token("Emphasis", 0, FALSE, <<>>, children)
RawText(content) == Token("RawText", 0, FALSE, content, <<>>)
LineBreak(soft) == Token("LineBreak", 0, soft, <<>>, <<>>)

BlockContainers == {"Document", "Quote"}
SpanContainers == {"Heading", "Paragraph", "Emphasis"}

NewBlocks ==
    {Quote(<<>>), Paragraph(<<>>)} \cup {Heading(l, <<>>) : l \in 1..MaxLevel}

NewSpans ==
    {RawText(<<"t">>), LineBreak(TRUE), LineBreak(FALSE), Emphasis(<<>>)}

RECURSIVE Size(_)
Size(token) ==
    LET RECURSIVE Sum(_)
        Sum(cs) == IF cs = <<>> THEN 0 ELSE Size(Head(cs)) + Sum(Tail(cs))
    IN 1 + Sum(token.children)

\* Number of tokens on the path from the root through the last children.
RECURSIVE RightDepth(_)
RightDepth(token) ==
    IF token.children = <<>> THEN 0
    ELSE 1 + RightDepth(token.children[Len(token.children)])

RECURSIVE RightToken(_, _)
RightToken(token, d) ==
    IF d = 0 THEN token
    ELSE RightToken(token.children[Len(token.children)], d - 1)

RECURSIVE AppendAt(_, _, _)
AppendAt(token, d, new) ==
    IF d = 0 THEN [token EXCEPT !.children = Append(@, new)]
    ELSE LET n == Len(token.children)
         IN [token EXCEPT !.children[n] = AppendAt(@, d - 1, new)]

\* iter_token_tree: the token, then each child's tokens, depth first.
RECURSIVE iter_token_tree(_)
iter_token_tree(token) ==
    LET RECURSIVE Each(_)
        Each(cs) ==
            IF cs = <<>> THEN <<>> ELSE iter_token_tree(Head(cs)) \o Each(Tail(cs))
    IN <<token>> \o Each(token.children)

IsHeading(token) == token.kind = "Heading"

\* min(iterable, default=d)
MinOr(S, d) == IF S = {} THEN d ELSE CHOOSE m \in S : \A x \in S : m <= x

Range(seq) == {seq[i] : i \in 1..Len(seq)}

(***************************************************************************)
(* normalize_headings                                                      *)
(***************************************************************************)
\* h.level -= offset for every heading of the list `headings`, which holds
\* every heading of the tree.
RECURSIVE ShiftHeadings(_, _)
ShiftHeadings(token, offset) ==
    [token EXCEPT
        !.level = IF IsHeading(token) THEN @ - offset ELSE @,
        !.children = [i \in 1..Len(@) |-> ShiftHeadings(@[i], offset)]]

\* Mutant: the headings are collected among the direct children of the root
\* only, the offset is computed from and applied to those.
normalize_headings_direct(token) ==
    LET headings == SelectSeq(token.children, IsHeading)
        offset == MinOr({h.level : h \in Range(headings)}, 1) - 1
    IN [token EXCEPT
          !.children = [i \in 1..Len(@) |->
              IF IsHeading(@[i]) THEN [@[i] EXCEPT !.level = @ - offset] ELSE @[i]]]

\* Mutant: every call raises the headings by one level at most.
normalize_headings_one_step(token) ==
    LET headings == SelectSeq(iter_token_tree(token), IsHeading)
        least == MinOr({h.level : h \in Range(headings)}, 1)
    IN ShiftHeadings(token, IF least > 1 THEN 1 ELSE 0)

normalize_headings(token) ==
    LET headings == SelectSeq(iter_token_tree(token), IsHeading)
        offset == MinOr({h.level : h \in Range(headings)}, 1) - 1
    IN ShiftHeadings(token, offset)

(***************************************************************************)
(* update_title                                                            *)
(***************************************************************************)
Titles == SeqsUpTo({"T", NL}, MaxTitleLen)

\* str.splitlines(): the lines without their terminators; a final terminator
\* does not open a further, empty line.
RECURSIVE SplitFrom(_, _, _)
SplitFrom(s, cur, lines) ==
    IF s = <<>> THEN (IF cur = <<>> THEN lines ELSE Append(lines, cur))
    ELSE IF Head(s) = NL THEN SplitFrom(Tail(s), <<>>, Append(lines, cur))
    ELSE SplitFrom(Tail(s), Append(cur, Head(s)), lines)

splitlines(s) == SplitFrom(s, <<>>, <<>>)

ValueError(msg) == [type |-> "ValueError", msg |-> msg]
RuntimeError(found) ==
    [type |-> "RuntimeError", msg |-> "Expected exactly one h1 heading", found |-> found]

is_h1(token) == IsHeading(token) /\ token.level = 1

\* heading.children = (RawText(title),) for the one heading that is_h1.
RECURSIVE SetH1Children(_, _)
SetH1Children(token, title) ==
    IF is_h1(token) THEN [token EXCEPT !.children = <<RawText(title)>>]
    ELSE [token EXCEPT !.children = [i \in 1..Len(@) |-> SetH1Children(@[i], title)]]

\* Mutant: the h1 headings are looked for among the direct children of the
\* root only.
update_title_direct(token, title) ==
    IF title = <<>> THEN [document |-> token, raised |-> ValueError("Empty title")]
    ELSE IF Len(splitlines(title)) > 1
    THEN [document |-> token, raised |-> ValueError("Title must fit on one line")]
    ELSE LET headings == SelectSeq(token.children, is_h1)
         IN IF Len(headings) # 1
            THEN [document |-> token, raised |-> RuntimeError(Len(headings))]
            ELSE [document |->
                     [token EXCEPT !.children = [i \in 1..Len(@) |->
                         IF is_h1(@[i]) THEN [@[i] EXCEPT !.children = <<RawText(title)>>]
                         ELSE @[i]]],
                  raised |-> NoError]

\* Mutant: the one-line check is missing.
update_title_multiline(token, title) ==
    IF title = <<>> THEN [document |-> token, raised |-> ValueError("Empty title")]
    ELSE LET headings == SelectSeq(iter_token_tree(token), is_h1)
         IN IF Len(headings) # 1
            THEN [document |-> token, raised |-> RuntimeError(Len(headings))]
            ELSE [document |-> SetH1Children(token, title), raised |-> NoError]

\* The result: the document after the call and the exception raised, if any.
update_title(token, title) ==
    IF title = <<>> THEN [document |-> token, raised |-> ValueError("Empty title")]
    ELSE IF Len(splitlines(title)) > 1
    THEN [document |-> token, raised |-> ValueError("Title must fit on one line")]
    ELSE LET headings == SelectSeq(iter_token_tree(token), is_h1)
         IN IF Len(headings) # 1
            THEN [document |-> token, raised |-> RuntimeError(Len(headings))]
            ELSE [document |-> SetH1Children(token, title), raised |-> NoError]

(***************************************************************************)
(* remove_softbreaks                                                       *)
(***************************************************************************)
is_softbreak(token) == token.kind = "LineBreak" /\ token.soft

\* Mutant: every LineBreak is replaced, hard ones included.
RECURSIVE remove_softbreaks_any(_)
remove_softbreaks_any(token) ==
    [token EXCEPT !.children = [i \in 1..Len(@) |->
        IF @[i].kind = "LineBreak" THEN RawText(<<" ">>)
        ELSE remove_softbreaks_any(@[i])]]

\* Mutant: only the children of the root's children are visited.
remove_softbreaks_shallow(token) ==
    [token EXCEPT !.children = [i \in 1..Len(@) |->
        [@[i] EXCEPT !.children = [j \in 1..Len(@) |->
            IF is_softbreak(@[j]) THEN RawText(<<" ">>) ELSE @[j]]]]]

\* For every token of the tree with children, the children tuple is rebuilt
\* with RawText(" ") in place of each soft LineBreak; the walk then goes on
\* into the rebuilt children.
RECURSIVE remove_softbreaks(_)
remove_softbreaks(token) ==
    [token EXCEPT !.children = [i \in 1..Len(@) |->
        IF is_softbreak(@[i]) THEN RawText(<<" ">>)
        ELSE remove_softbreaks(@[i])]]

(***************************************************************************)
(* The passes applied to a parsed document.                                *)
(***************************************************************************)
\* Document(text): the parser builds the tree, token by token in document
\* order; each new token becomes the last child of an open container.
ParseToken ==
    /\ docPc = "parsing"
    /\ Size(document) < MaxNodes
    /\ \E d \in 0..RightDepth(document) :
         LET parent == RightToken(document, d)
         IN \E new \in NewBlocks \cup NewSpans :
              /\ \/ parent.kind \in BlockContainers /\ new \in NewBlocks
                 \/ parent.kind \in SpanContainers /\ new \in NewSpans
              /\ document' = AppendAt(document, d, new)
    /\ UNCHANGED <<docPc, snapshot, lastOp, lastTitle, extractVars, cliVars, gitVars, mainVars>>

ParseDone ==
    /\ docPc = "parsing"
    /\ docPc' = "ready"
    /\ UNCHANGED <<document, snapshot, lastOp, lastTitle, extractVars, cliVars, gitVars, mainVars>>

\* normalize_headings(document)
NormalizeHeadings ==
    /\ docPc = "ready"
    /\ ~exited
    /\ snapshot' = document
    /\ document' = normalize_headings(document)
    /\ lastOp' = "normalize_headings"
    /\ raised' = NoError
    /\ UNCHANGED <<docPc, lastTitle, extractVars, gitVars, exited, exit_code, stderr, mainVars>>

\* cli._main, lines 223-229: update_title(document, title); any exception
\* aborts with "Failed to change title" and exit code 1.  The title is the
\* one already formatted; the titles drawn hold no replacement field, which
\* str.format leaves as they are.
UpdateTitle ==
    /\ docPc = "ready"
    /\ ~exited
    /\ \E title \in Titles :
         LET r == update_title(document, title)
         IN /\ snapshot' = document
            /\ document' = r.document
            /\ lastOp' = "update_title"
            /\ lastTitle' = title
            /\ raised' = r.raised
            /\ IF r.raised # NoError
               THEN /\ stderr' = stderr \o
                          <<[msg |-> "Failed to change title", exc |-> r.raised]>>
                    /\ exited' = TRUE
                    /\ exit_code' = 1
               ELSE UNCHANGED <<stderr, exited, exit_code>>
    /\ UNCHANGED <<docPc, extractVars, gitVars, mainVars>>

\* remove_softbreaks(document)
RemoveSoftbreaks ==
    /\ docPc = "ready"
    /\ ~exited
    /\ snapshot' = document
    /\ document' = remove_softbreaks(document)
    /\ lastOp' = "remove_softbreaks"
    /\ raised' = NoError
    /\ UNCHANGED <<docPc, lastTitle, extractVars, gitVars, exited, exit_code, stderr, mainVars>>

InitDoc ==
    /\ MainIdle
    /\ ExtractIdle
    /\ raised = NoError
    /\ exited = FALSE
    /\ exit_code = 0
    /\ stderr = <<>>
    /\ document = Document(<<>>)
    /\ docPc = "parsing"
    /\ snapshot = NoDocument
    /\ lastOp = "none"
    /\ lastTitle = <<>>
    /\ GitIdle

NextDoc ==
    \/ ParseToken
    \/ ParseDone
    \/ NormalizeHeadings
    \/ UpdateTitle
    \/ RemoveSoftbreaks

SpecDoc == InitDoc /\ [][NextDoc]_vars

(***************************************************************************)
(* Properties of the passes over the token tree                            *)
(***************************************************************************)
\* The levels of the headings of the tree, in document order.
HeadingLevels(token) ==
    LET headings == SelectSeq(iter_token_tree(token), IsHeading)
    IN [i \in 1..Len(headings) |-> headings[i].level]

\* C4: with at least one heading anywhere in the tree, after
\* normalize_headings the minimum heading level is 1, every level is
\* positive and the difference between the levels of any two headings is as
\* before the call; without a heading the call changes nothing; it never
\* fails.
C4_NormalizeHeadings ==
    lastOp = "normalize_headings" =>
        LET before == HeadingLevels(snapshot)
            after == HeadingLevels(document)
        IN /\ raised = NoError
           /\ ~exited
           /\ Len(after) = Len(before)
           /\ before = <<>> => document = snapshot
           /\ before # <<>> =>
                /\ \E i \in 1..Len(after) : after[i] = 1
                /\ \A i \in 1..Len(after) : after[i] >= 1
                /\ \A i, j \in 1..Len(after) :
                      after[i] - after[j] = before[i] - before[j]

\* C4 witness: normalize_headings has run on a tree whose shallowest heading
\* is below level 1 and nested (no direct child of the root), with a second
\* heading of another level.
C4_Witness ==
    /\ lastOp = "normalize_headings"
    /\ LET before == HeadingLevels(snapshot)
           least == MinOr(Range(before), 1)
       IN /\ Len(before) >= 2
          /\ \E i, j \in 1..Len(before) : before[i] # before[j]
          /\ least >= 2
          /\ \A i \in 1..Len(snapshot.children) :
                ~(IsHeading(snapshot.children[i]) /\ snapshot.children[i].level = least)

\* offset = min((h.level for h in headings), default=1) - 1
heading_offset(token) ==
    MinOr(Range(HeadingLevels(token)), 1) - 1

\* C16: a second normalize_headings leaves every heading level as the first
\* call left it; the second call computes offset 0.
C16_NormalizeTwice ==
    lastOp = "normalize_headings" =>
        /\ heading_offset(document) = 0
        /\ HeadingLevels(normalize_headings(document)) = HeadingLevels(document)
        /\ normalize_headings(document) = document

\* C16 witness: the first call has moved headings, two levels or more.
C16_Witness ==
    /\ lastOp = "normalize_headings"
    /\ heading_offset(snapshot) >= 2
    /\ document # snapshot
    /\ Len(HeadingLevels(document)) >= 2

\* A title spans more than one line when a line terminator is followed by
\* further characters.
SpansLines(title) == \E i \in 1..(Len(title) - 1) : title[i] = NL

DirectH1Count(token) == Len(SelectSeq(token.children, is_h1))

TreeH1Count(token) == Len(SelectSeq(iter_token_tree(token), is_h1))

\* The tree with the children of every level-1 heading removed.
RECURSIVE WithoutH1Children(_)
WithoutH1Children(token) ==
    IF is_h1(token) THEN [token EXCEPT !.children = <<>>]
    ELSE [token EXCEPT
            !.children = [i \in 1..Len(token.children) |->
                             WithoutH1Children(token.children[i])]]

\* What update_title has done, given the number n of level-1 headings that
\* decides its outcome.
TitleOutcome(n) ==
    /\ n = 1 =>
         /\ raised = NoError
         /\ ~exited
         /\ LET h1s == SelectSeq(iter_token_tree(document), is_h1)
            IN /\ Len(h1s) = 1
               /\ h1s[1].children = <<RawText(lastTitle)>>
         /\ WithoutH1Children(document) = WithoutH1Children(snapshot)
    /\ n # 1 =>
         /\ raised = RuntimeError(n)
         /\ document = snapshot
         /\ exited /\ exit_code = 1

\* C5 as stated: with a non-empty single-line title the outcome of
\* update_title is decided by the number of level-1 headings among the direct
\* children of the document root.
C5_ByDirectChildren ==
    (lastOp = "update_title" /\ lastTitle # <<>> /\ ~SpansLines(lastTitle)) =>
        TitleOutcome(DirectH1Count(snapshot))

\* C5 amended: with a non-empty single-line title the outcome of update_title
\* is decided by the number of level-1 headings anywhere in the tree: exactly
\* one, it succeeds and that heading's children become one RawText holding
\* the title verbatim; zero, or two and more, it fails with the error naming
\* the count found.
C5_ByWholeTree ==
    (lastOp = "update_title" /\ lastTitle # <<>> /\ ~SpansLines(lastTitle)) =>
        TitleOutcome(TreeH1Count(snapshot))

\* C5 witness: update_title has succeeded on a tree whose only level-1
\* heading is nested and had children of its own.
C5_Witness ==
    /\ lastOp = "update_title"
    /\ raised = NoError
    /\ lastTitle = <<"T">>
    /\ DirectH1Count(snapshot) = 0
    /\ TreeH1Count(snapshot) = 1
    /\ \E i \in 1..Len(iter_token_tree(snapshot)) :
          LET t == iter_token_tree(snapshot)[i]
          IN is_h1(t) /\ t.children # <<>>

\* C6: update_title fails with the invalid-title error when the title is
\* empty and when it spans more than one line, whatever the headings of the
\* document; no token is modified; the command line reports the failure and
\* exits with code 1.
C6_InvalidTitle ==
    (lastOp = "update_title" /\ (lastTitle = <<>> \/ SpansLines(lastTitle))) =>
        /\ raised = ValueError(IF lastTitle = <<>> THEN "Empty title"
                               ELSE "Title must fit on one line")
        /\ document = snapshot
        /\ exited
        /\ exit_code = 1
        /\ stderr # <<>>
        /\ stderr[Len(stderr)] = [msg |-> "Failed to change title", exc |-> raised]

\* C6 witness: a title of two lines was refused on a document with exactly
\* one level-1 heading.
C6_Witness ==
    /\ lastOp = "update_title"
    /\ SpansLines(lastTitle)
    /\ TreeH1Count(snapshot) = 1
    /\ raised = ValueError("Title must fit on one line")
    /\ exited

\* A token without its subtree: its own attributes and its number of children.
Shallow(token) ==
    [kind |-> token.kind, level |-> token.level, soft |-> token.soft,
     content |-> token.content, arity |-> Len(token.children)]

\* C7: after remove_softbreaks no soft LineBreak remains anywhere in the
\* tree, each former soft break is replaced at its position by a RawText
\* holding one space, every hard break and every other token is as it was,
\* and a second pass changes nothing.
C7_RemoveSoftbreaks ==
    lastOp = "remove_softbreaks" =>
        LET before == iter_token_tree(snapshot)
            after == iter_token_tree(document)
        IN /\ \A i \in 1..Len(after) : ~is_softbreak(after[i])
           /\ Len(after) = Len(before)
           /\ \A i \in 1..Len(before) :
                 Shallow(after[i]) =
                    IF is_softbreak(before[i]) THEN Shallow(RawText(<<" ">>))
                    ELSE Shallow(before[i])
           /\ remove_softbreaks(document) = document

\* C7 witness: remove_softbreaks has run on a tree with a soft break inside
\* an Emphasis inside a block.
C7_Witness ==
    /\ lastOp = "remove_softbreaks"
    /\ \E i \in 1..Len(snapshot.children) :
       \E j \in 1..Len(snapshot.children[i].children) :
          LET span == snapshot.children[i].children[j]
          IN /\ span.kind = "Emphasis"
             /\ \E k \in 1..Len(span.children) : is_softbreak(span.children[k])

\* C7 witness, second case: a hard break beside a soft break.
C7_WitnessHardBreak ==
    /\ lastOp = "remove_softbreaks"
    /\ \E i, j \in 1..Len(iter_token_tree(snapshot)) :
          /\ is_softbreak(iter_token_tree(snapshot)[i])
          /\ iter_token_tree(snapshot)[j] = LineBreak(FALSE)

(***************************************************************************)
(* The repository: a commit DAG and tags.  Commits are numbered in the     *)
(* order they are created, so every parent is an older commit.             *)
(***************************************************************************)
TagNames == {"1.0.0", "1.0.1", "2.0.0"}

Commits == 1..Len(commits)

\* The parents a new commit can have: none (a root), one, or two (a merge).
ParentLists ==
    {<<>>} \cup {<<p>> : p \in Commits}
           \cup {pq \in Commits \X Commits : pq[1] # pq[2]}

\* repo.create_commit(ref, author, committer, message, tree, parents)
CreateCommit ==
    /\ gitPc = "open"
    /\ Len(commits) < MaxCommits
    /\ \E parents \in ParentLists : commits' = Append(commits, parents)
    /\ UNCHANGED <<tags, gitPc, tag_name, result, extractVars, cliVars, docVars, mainVars>>

\* repo.create_tag(name, commit, ...)
CreateTag ==
    /\ gitPc = "open"
    /\ \E name \in TagNames \ DOMAIN tags, c \in Commits :
          tags' = [t \in DOMAIN tags \cup {name} |-> IF t = name THEN c ELSE tags[t]]
    /\ UNCHANGED <<commits, gitPc, tag_name, result, extractVars, cliVars, docVars, mainVars>>

TagNotFoundError(tag) == [type |-> "TagNotFoundError", tag |-> tag]

None == [kind |-> "None"]
Str(value) == [kind |-> "str", value |-> value]

\* Every order in which repo.references.iterator(TAGS) can list the tags.
RefOrders ==
    {o \in [1..Cardinality(DOMAIN tags) -> DOMAIN tags] :
        \A i, j \in DOMAIN o : i # j => o[i] # o[j]}

\* The dict comprehension: one entry per commit carrying a tag other than
\* tag; of several tags on one commit the last one listed stays.
CommitsTag(refs, tag) ==
    LET kept == {i \in DOMAIN refs : refs[i] # tag}
    IN [c \in {tags[refs[i]] : i \in kept} |->
          refs[CHOOSE i \in kept :
                  /\ tags[refs[i]] = c
                  /\ \A j \in kept : tags[refs[j]] = c => j <= i]]

\* repo.walk(start) with simplify_first_parent(): the start commit, then its
\* first parent, and so on to a root.
RECURSIVE FirstParentWalk(_)
FirstParentWalk(c) ==
    IF commits[c] = <<>> THEN <<c>>
    ELSE <<c>> \o FirstParentWalk(commits[c][1])

\* Mutant's walk: repo.walk(start) without simplify_first_parent(), every
\* ancestor, newest first.
RECURSIVE Ancestors(_)
Ancestors(c) ==
    {c} \cup UNION {Ancestors(commits[c][i]) : i \in DOMAIN commits[c]}

RECURSIVE Descending(_)
Descending(S) ==
    IF S = {} THEN <<>>
    ELSE LET m == CHOOSE x \in S : \A y \in S : y <= x
         IN <<m>> \o Descending(S \ {m})

\* for commit in walker: the tag of the first walked commit found in the dict.
FirstTagged(walk, commits_tag) ==
    LET hits == {i \in DOMAIN walk : walk[i] \in DOMAIN commits_tag}
    IN IF hits = {} THEN None
       ELSE Str(commits_tag[walk[CHOOSE i \in hits : \A j \in hits : i <= j]])

\* Mutant: the walk is not simplified to first parents.
find_previous_tag_all_parents(refs, tag) ==
    IF tag \notin DOMAIN tags
    THEN [raised |-> TagNotFoundError(tag), value |-> NoResult]
    ELSE [raised |-> NoError,
          value |-> FirstTagged(Descending(Ancestors(tags[tag])), CommitsTag(refs, tag))]

\* Mutant: an unknown tag is answered with None instead of TagNotFoundError.
find_previous_tag_lenient(refs, tag) ==
    IF tag \notin DOMAIN tags
    THEN [raised |-> NoError, value |-> None]
    ELSE [raised |-> NoError,
          value |-> FirstTagged(FirstParentWalk(tags[tag]), CommitsTag(refs, tag))]

\* find_previous_tag(repo, tag_name), refs being the order the repository
\* lists its tags in.  get_commit_for_tag raises TagNotFoundError when
\* refs/tags/<tag> does not exist.
find_previous_tag(refs, tag) ==
    IF tag \notin DOMAIN tags
    THEN [raised |-> TagNotFoundError(tag), value |-> NoResult]
    ELSE [raised |-> NoError,
          value |-> FirstTagged(FirstParentWalk(tags[tag]), CommitsTag(refs, tag))]

FindPreviousTag ==
    /\ gitPc = "open"
    /\ \E tag \in TagNames, refs \in RefOrders :
          LET r == find_previous_tag(refs, tag)
          IN /\ tag_name' = tag
             /\ result' = r.value
             /\ raised' = r.raised
    /\ gitPc' = "called"
    /\ UNCHANGED <<commits, tags, extractVars, docVars, exited, exit_code, stderr, mainVars>>

InitGit ==
    /\ MainIdle
    /\ ExtractIdle
    /\ DocIdle
    /\ raised = NoError
    /\ exited = FALSE
    /\ exit_code = 0
    /\ stderr = <<>>
    /\ commits = <<>>
    /\ tags = <<>>
    /\ gitPc = "open"
    /\ tag_name = ""
    /\ result = NoResult

NextGit ==
    \/ CreateCommit
    \/ CreateTag
    \/ FindPreviousTag

SpecGit == InitGit /\ [][NextGit]_vars

(***************************************************************************)
(* Properties of find_previous_tag                                         *)
(***************************************************************************)
Called == gitPc = "called"

OtherTagsOn(c) == {u \in DOMAIN tags \ {tag_name} : tags[u] = c}

\* C8: for an existing tag T, find_previous_tag returns a tag of the nearest
\* commit carrying a tag other than T on the first-parent chain of T's
\* commit, the commit T points to being excluded from the search (None when
\* there is no such commit).
C8_StartCommitExcluded ==
    (Called /\ tag_name \in DOMAIN tags) =>
        LET chain == Tail(FirstParentWalk(tags[tag_name]))
            tagged == {i \in DOMAIN chain : OtherTagsOn(chain[i]) # {}}
        IN /\ raised = NoError
           /\ IF tagged = {} THEN result = None
              ELSE LET nearest == CHOOSE i \in tagged : \A j \in tagged : i <= j
                   IN /\ result.kind = "str"
                      /\ result.value \in OtherTagsOn(chain[nearest])

\* What the code does instead: the same search with the commit T points to
\* included, so that another tag on that commit is returned.
C8_StartCommitIncluded ==
    (Called /\ tag_name \in DOMAIN tags) =>
        LET chain == FirstParentWalk(tags[tag_name])
            tagged == {i \in DOMAIN chain : OtherTagsOn(chain[i]) # {}}
        IN /\ raised = NoError
           /\ IF tagged = {} THEN result = None
              ELSE LET nearest == CHOOSE i \in tagged : \A j \in tagged : i <= j
                   IN /\ result.kind = "str"
                      /\ result.value \in OtherTagsOn(chain[nearest])

\* C9: find_previous_tag fails with TagNotFoundError carrying the tag name
\* exactly when tag_name names no tag, and returns None without error
\* exactly when tag_name exists and no commit of the first-parent chain
\* starting at its commit carries another tag, whatever other tags exist.
C9_NotFoundVersusNone ==
    Called =>
        /\ raised = TagNotFoundError(tag_name) <=> tag_name \notin DOMAIN tags
        /\ raised # NoError => (raised = TagNotFoundError(tag_name) /\ result = NoResult)
        /\ (raised = NoError /\ result = None) <=>
              /\ tag_name \in DOMAIN tags
              /\ \A c \in Range(FirstParentWalk(tags[tag_name])) : OtherTagsOn(c) = {}

\* C9 witness: None is returned for an existing tag while another tag exists
\* in the repository, off the first-parent chain.
C9_Witness ==
    /\ Called
    /\ tag_name \in DOMAIN tags
    /\ result = None
    /\ raised = NoError
    /\ DOMAIN tags # {tag_name}
    /\ Len(FirstParentWalk(tags[tag_name])) >= 2

\* C9 witness, the other outcome: an unknown tag while other tags exist.
C9_WitnessNotFound ==
    /\ Called
    /\ tag_name \notin DOMAIN tags
    /\ raised = TagNotFoundError(tag_name)
    /\ DOMAIN tags # {}

\* C10: a tag returned by find_previous_tag differs from T and points at a
\* commit of the first-parent chain starting at T's commit; a tag whose
\* commit is reachable from T's commit only through a non-first parent of a
\* merge is never returned.
C10_OnlyFirstParentChain ==
    (Called /\ result.kind = "str") =>
        /\ tag_name \in DOMAIN tags
        /\ result.value \in DOMAIN tags
        /\ result.value # tag_name
        /\ tags[result.value] \in Range(FirstParentWalk(tags[tag_name]))
        /\ \A u \in DOMAIN tags :
              tags[u] \in Ancestors(tags[tag_name]) \ Range(FirstParentWalk(tags[tag_name]))
                 => result.value # u

\* C10 witness: T is on a merge commit, a tag sits on a commit reachable only
\* through the second parent, and an older tag on the first-parent chain is
\* returned.
C10_Witness ==
    /\ Called
    /\ result.kind = "str"
    /\ Len(commits[tags[tag_name]]) = 2
    /\ \E u \in DOMAIN tags :
          /\ tags[u] \in Ancestors(tags[tag_name]) \ Range(FirstParentWalk(tags[tag_name]))
          /\ tags[u] > tags[result.value]

(***************************************************************************)
(* cli._main, one run from the options to the exit.                        *)
(*                                                                         *)
(* Text is a sequence of tokens: the characters of the changelog lines,    *)
(* and, for the comparison line, its markup and the strings formatted     *)
(* into it.                                                                *)
(***************************************************************************)
\* The level of the heading a "#" line of the changelog opens: "## ".
ReleaseLevel == 2

\* The mark a release's heading line carries after "#".
ReleaseMark == ("1.0.0" :> "1" @@ "1.0.1" :> "2" @@ "2.0.0" :> "3")

\* re.compile(capture_start.format(tag=re.escape(tag))), default capture_start.
StartPatternFor(t) == <<"#", ReleaseMark[t]>>

\* re.compile(capture_end), default capture_end.
DefaultEndPattern == <<"#">>

\* The repositories a run is made in; HEAD is the newest commit.
MainRepos ==
    {[commits |-> <<<<>>>>, tags |-> <<>>],
     [commits |-> <<<<>>>>, tags |-> ("1.0.0" :> 1)],
     [commits |-> <<<<>>>>, tags |-> ("1.0.0" :> 1 @@ "1.0.1" :> 1)],
     [commits |-> <<<<>>, <<1>>>>, tags |-> ("1.0.0" :> 1 @@ "1.0.1" :> 2)]}

\* get_current_commit(repo)
get_current_commit == Len(commits)

\* Mutant: of several tags on the commit only the first listed is returned.
get_tags_for_commit_first(refs, commit) ==
    LET found == SelectSeq(refs, LAMBDA t : tags[t] = commit)
    IN SubSeq(found, 1, IF found = <<>> THEN 0 ELSE 1)

\* get_tags_for_commit(repo, commit): the tags on the commit, in the order
\* the repository lists them.
get_tags_for_commit(refs, commit) ==
    SelectSeq(refs, LAMBDA t : tags[t] = commit)

\* --diff-url templates: well formed, naming an unknown slot, and malformed
\* (a single "{").
GoodTemplate == <<"https://x/", "{prev}", "...", "{tag}">>
UnknownSlotTemplate == <<"https://x/", "{other}", "...", "{tag}">>
MalformedTemplate == <<"https://x/", "{prev}", "{">>

Templates == {GoodTemplate, UnknownSlotTemplate, MalformedTemplate}

KeyError(key) == [type |-> "KeyError", msg |-> key]
FormatValueError == [type |-> "ValueError", msg |-> "Single '{' encountered in format string"]

\* except LookupError: KeyError and IndexError are LookupErrors, ValueError is not.
IsLookupError(exc) == exc.type \in {"KeyError", "IndexError"}

\* diff_url.format(tag=tag, prev=previous_tag): the template is scanned from
\* the left; a replacement field is looked up among the keyword arguments.
RECURSIVE FormatFrom(_, _, _, _)
FormatFrom(template, t, prev, done) ==
    IF template = <<>> THEN [raised |-> NoError, value |-> done]
    ELSE LET f == Head(template)
         IN IF f = "{tag}" THEN FormatFrom(Tail(template), t, prev, Append(done, t))
            ELSE IF f = "{prev}" THEN FormatFrom(Tail(template), t, prev, Append(done, prev))
            ELSE IF f = "{other}" THEN [raised |-> KeyError("other"), value |-> <<>>]
            ELSE IF f = "{" THEN [raised |-> FormatValueError, value |-> <<>>]
            ELSE FormatFrom(Tail(template), t, prev, Append(done, f))

\* Mutant: the two keyword arguments are exchanged.
format_diff_url_swapped(template, t, prev) == FormatFrom(template, prev, t, <<>>)

format_diff_url(template, t, prev) == FormatFrom(template, t, prev, <<>>)

\* f"\n**Full Changelog:** [{previous_tag}...{tag}]({url})"
DiffLine(t, prev, url) ==
    <<NL, "**", "Full Changelog:", "**", " ", "[", prev, "...", t, "]", "(">>
        \o url \o <<")">>

\* extract_release as a function of the whole stream: the lines yielded, or
\* the exception raised.
RECURSIVE DropWhileNot(_, _)
DropWhileNot(pattern, lines) ==
    IF lines = <<>> THEN <<>>
    ELSE IF Match(pattern, Head(lines)) THEN lines
    ELSE DropWhileNot(pattern, Tail(lines))

RECURSIVE TakeWhileNot(_, _)
TakeWhileNot(pattern, lines) ==
    IF lines = <<>> THEN <<>>
    ELSE IF Match(pattern, Head(lines)) THEN <<>>
    ELSE <<Head(lines)>> \o TakeWhileNot(pattern, Tail(lines))

extract_release(lines, start, end) ==
    LET capture == DropWhileNot(start, lines)
    IN IF capture = <<>>
       THEN [raised |-> PatternNotFoundError(start), lines |-> <<>>]
       ELSE [raised |-> NoError,
             lines |-> <<Head(capture)>> \o TakeWhileNot(end, Tail(capture))]

\* str.strip()
Whitespace == {NL, " "}

RECURSIVE LStrip(_)
LStrip(s) ==
    IF s # <<>> /\ Head(s) \in Whitespace THEN LStrip(Tail(s)) ELSE s

RECURSIVE RStrip(_)
RStrip(s) ==
    IF s # <<>> /\ s[Len(s)] \in Whitespace THEN RStrip(SubSeq(s, 1, Len(s) - 1)) ELSE s

Strip(s) == RStrip(LStrip(s))

(***************************************************************************)
(* Document(text): the block structure CommonMark gives the lines of the   *)
(* text.  A "#" line is a heading; a blank line closes the paragraph; any  *)
(* other line opens a paragraph or, when one is open, continues it after a *)
(* soft line break.  In a line, ** ** is strong emphasis and [ ]( ) a link.*)
(***************************************************************************)
Strong(children) == Token("Strong", 0, FALSE, <<>>, children)
Link(target, children) == Token("Link", 0, FALSE, target, children)

PositionOf(x, s) == CHOOSE i \in 1..Len(s) : s[i] = x /\ \A j \in 1..(i - 1) : s[j] # x

\* The span tokens of one line.
LineSpans(line) ==
    IF line = <<>> THEN <<>>
    ELSE IF Len(line) >= 3 /\ line[1] = "**" /\ line[3] = "**" /\ "]" \in Range(line)
    THEN LET close == PositionOf("]", line)
         IN <<Strong(<<RawText(<<line[2]>>)>>),
              RawText(SubSeq(line, 4, 4)),
              Link(SubSeq(line, close + 2, Len(line) - 1),
                   <<RawText(SubSeq(line, 6, close - 1))>>)>>
    ELSE <<RawText(line)>>

RECURSIVE ParagraphSpans(_)
ParagraphSpans(lines) ==
    IF Len(lines) = 1 THEN LineSpans(lines[1])
    ELSE LineSpans(Head(lines)) \o <<LineBreak(TRUE)>> \o ParagraphSpans(Tail(lines))

CloseParagraph(blocks, open) ==
    IF open = <<>> THEN blocks ELSE Append(blocks, Paragraph(ParagraphSpans(open)))

RECURSIVE ParseBlocks(_, _, _)
ParseBlocks(lines, blocks, open) ==
    IF lines = <<>> THEN CloseParagraph(blocks, open)
    ELSE LET line == Head(lines)
         IN IF line = <<>>
            THEN ParseBlocks(Tail(lines), CloseParagraph(blocks, open), <<>>)
            ELSE IF Head(line) = "#"
            THEN ParseBlocks(Tail(lines),
                             Append(CloseParagraph(blocks, open),
                                    Heading(ReleaseLevel, LineSpans(Tail(line)))),
                             <<>>)
            ELSE ParseBlocks(Tail(lines), blocks, Append(open, line))

ParseText(s) == Document(ParseBlocks(splitlines(s), <<>>, <<>>))

(***************************************************************************)
(* renderer.render(document): the markdown of the tree, each block on      *)
(* lines of its own, blocks separated by a blank line.                     *)
(***************************************************************************)
RECURSIVE RenderToken(_)
RenderToken(token) ==
    LET RECURSIVE Each(_)
        Each(cs) == IF cs = <<>> THEN <<>> ELSE RenderToken(Head(cs)) \o Each(Tail(cs))
        RECURSIVE Blocks(_)
        Blocks(cs) ==
            IF cs = <<>> THEN <<>>
            ELSE IF Len(cs) = 1 THEN RenderToken(cs[1])
            ELSE RenderToken(Head(cs)) \o <<NL>> \o Blocks(Tail(cs))
        inner == Each(token.children)
    IN CASE token.kind = "Document" -> Blocks(token.children)
         [] token.kind = "Heading" ->
               [i \in 1..token.level |-> "#"] \o <<" ">> \o inner \o <<NL>>
         [] token.kind = "Paragraph" -> inner \o <<NL>>
         [] token.kind = "RawText" -> token.content
         [] token.kind = "LineBreak" -> IF token.soft THEN <<NL>> ELSE <<"\\", NL>>
         [] token.kind = "Strong" -> <<"**">> \o inner \o <<"**">>
         [] token.kind = "Link" -> <<"[">> \o inner \o <<"]", "(">> \o token.content \o <<")">>
         [] OTHER -> inner

(***************************************************************************)
(* The statements of _main, in the order the function body has them.  An  *)
(* option is drawn where _main first reads it.                             *)
(***************************************************************************)
\* Mutant: the order of the statements as the control-flow text gives it.
NextStep_ExtractFirst(step) ==
    CASE step = "tag" -> "extract"
      [] step = "extract" -> "parse"
      [] step = "parse" -> "normalize"
      [] step = "normalize" -> "title"
      [] step = "title" -> "softbreak"
      [] step = "softbreak" -> "previous_tag"
      [] step = "previous_tag" -> "diff_url"
      [] step = "diff_url" -> "print"
      [] step = "print" -> "done"

NextStep(step) ==
    CASE step = "tag" -> "previous_tag"
      [] step = "previous_tag" -> "extract"
      [] step = "extract" -> "diff_url"
      [] step = "diff_url" -> "parse"
      [] step = "parse" -> "normalize"
      [] step = "normalize" -> "title"
      [] step = "title" -> "softbreak"
      [] step = "softbreak" -> "print"
      [] step = "print" -> "done"

\* One message on standard error: print_error(msg, exc=exc, warning=warning).
Message(msg, args, exc, warning) ==
    [msg |-> msg, args |-> args, exc |-> exc, warning |-> warning]

\* Mutant: nothing is printed.
warn_silent(msg, args, exc) == UNCHANGED stderr

\* print_error(msg, exc=exc, warning=True)
warn(msg, args, exc) == stderr' = Append(stderr, Message(msg, args, exc, TRUE))

\* Mutant: the message is printed and the run goes on.
abort_returns(msg, args, exc) ==
    /\ stderr' = Append(stderr, Message(msg, args, exc, FALSE))
    /\ pc' = NextStep(pc)
    /\ UNCHANGED <<exited, exit_code>>

\* abort(msg, exc=exc): print_error, then sys.exit(1).
abort(msg, args, exc) ==
    /\ stderr' = Append(stderr, Message(msg, args, exc, FALSE))
    /\ exited' = TRUE
    /\ exit_code' = 1
    /\ pc' = "exited"

\* An exception no handler of _main catches: the interpreter prints the
\* traceback and exits with status 1.
Uncaught(exc) ==
    /\ stderr' = Append(stderr, Message("Traceback", <<>>, exc, FALSE))
    /\ exited' = TRUE
    /\ exit_code' = 1
    /\ pc' = "exited"

Bool(value) == [kind |-> "bool", value |-> value]

TagOptions == {None, Str("1.0.0"), Str("1.0.1")}
DiffUrlOptions == {None} \cup {Str(u) : u \in Templates}
PreviousTagOptions == {None, Str("1.0.0")}
TitleOptions == {None, Str(<<>>), Str(<<"Release ", "{tag}">>)}

\* title.format(tag=tag)
format_title(template, t) ==
    [i \in 1..Len(template) |-> IF template[i] = "{tag}" THEN t ELSE template[i]]

\* cli.py 172-182: without --tag, the tag is the one tag on HEAD.
ResolveTag ==
    /\ pc = "tag"
    /\ IF main_tag # None
       THEN /\ pc' = NextStep(pc)
            /\ UNCHANGED <<main_tag, trace, cliVars>>
       ELSE /\ trace' = Append(trace, "tag_from_head")
            /\ raised' = NoError
            /\ \E refs \in RefOrders :
                 LET head_tags == get_tags_for_commit(refs, get_current_commit)
                 IN IF head_tags = <<>>
                    THEN /\ abort("No tag was provided and not tag is attached to 'HEAD'",
                                  <<>>, NoError)
                         /\ UNCHANGED main_tag
                    ELSE IF Len(head_tags) > 1
                    THEN /\ abort("No tag was provided and 'HEAD' have more than one tag",
                                  head_tags, NoError)
                         /\ UNCHANGED main_tag
                    ELSE /\ main_tag' = Str(head_tags[1])
                         /\ pc' = NextStep(pc)
                         /\ UNCHANGED <<exited, exit_code, stderr>>
    /\ UNCHANGED <<extractVars, docVars, gitVars, main_diff_url, main_previous_tag,
                   main_title, main_softbreak, stdout>>

\* cli.py 184-197: with --diff-url and without --previous-tag, the previous
\* tag is looked for; failing to find one is a warning.
ResolvePreviousTag ==
    /\ pc = "previous_tag"
    /\ \E d \in DiffUrlOptions, p \in PreviousTagOptions :
         /\ main_diff_url' = d
         /\ IF d # None /\ p = None
            THEN /\ trace' = Append(trace, "find_previous_tag")
                 /\ \E refs \in RefOrders :
                      LET r == find_previous_tag(refs, main_tag.value)
                      IN /\ raised' = r.raised
                         /\ IF r.raised # NoError
                            THEN /\ warn("Failed to find previous tag",
                                         <<main_tag.value>>, r.raised)
                                 /\ main_previous_tag' = p
                            ELSE /\ main_previous_tag' = r.value
                                 /\ IF r.value = None
                                    THEN warn("No previous tag",
                                              <<main_tag.value>>, NoError)
                                    ELSE UNCHANGED stderr
            ELSE /\ main_previous_tag' = p
                 /\ UNCHANGED <<trace, raised, stderr>>
    /\ pc' = NextStep(pc)
    /\ UNCHANGED <<extractVars, docVars, gitVars, exited, exit_code, main_tag,
                   main_title, main_softbreak, stdout>>

\* cli.py 199-206: the changelog is opened and the release text extracted;
\* PatternNotFoundError aborts.
ExtractRelease ==
    /\ pc = "extract"
    /\ trace' = Append(trace, "extract_release")
    /\ start_pattern' = StartPatternFor(main_tag.value)
    /\ end_pattern' = DefaultEndPattern
    /\ \E changelog \in Streams :
         LET r == extract_release(changelog, start_pattern', end_pattern')
         IN /\ io' = changelog
            /\ raised' = r.raised
            /\ IF r.raised # NoError
               THEN /\ abort("No match for tag", <<main_tag.value>>, r.raised)
                    /\ UNCHANGED text
               ELSE /\ text' = Join(r.lines)
                    /\ pc' = NextStep(pc)
                    /\ UNCHANGED <<exited, exit_code, stderr>>
    /\ UNCHANGED <<consumed, yielded, gen, docVars, gitVars, main_tag, main_diff_url,
                   main_previous_tag, main_title, main_softbreak, stdout>>

\* cli.py 208-215: the comparison line is added to the text; only a
\* LookupError of str.format is handled.
AppendDiffUrl ==
    /\ pc = "diff_url"
    /\ IF main_diff_url # None /\ main_previous_tag # None
       THEN LET r == format_diff_url(main_diff_url.value, main_tag.value,
                                     main_previous_tag.value)
            IN /\ trace' = Append(trace, "append_diff_url")
               /\ raised' = r.raised
               /\ IF r.raised = NoError
                  THEN /\ text' = text \o DiffLine(main_tag.value,
                                                   main_previous_tag.value, r.value)
                       /\ pc' = NextStep(pc)
                       /\ UNCHANGED <<exited, exit_code, stderr>>
                  ELSE IF IsLookupError(r.raised)
                  THEN /\ abort("Failed to format string", main_diff_url.value, r.raised)
                       /\ UNCHANGED text
                  ELSE /\ Uncaught(r.raised)
                       /\ UNCHANGED text
       ELSE /\ pc' = NextStep(pc)
            /\ UNCHANGED <<text, trace, cliVars>>
    /\ UNCHANGED <<io, start_pattern, end_pattern, consumed, yielded, gen, docVars,
                   gitVars, main_tag, main_diff_url, main_previous_tag, main_title,
                   main_softbreak, stdout>>

\* cli.py 217-218: document = Document(text.strip())
ParseDocument ==
    /\ pc = "parse"
    /\ trace' = Append(trace, "parse")
    /\ document' = ParseText(Strip(text))
    /\ pc' = NextStep(pc)
    /\ UNCHANGED <<extractVars, cliVars, docPc, snapshot, lastOp, lastTitle, gitVars,
                   main_tag, main_diff_url, main_previous_tag, main_title,
                   main_softbreak, stdout>>

\* cli.py 220: normalize_headings(document)
RunNormalizeHeadings ==
    /\ pc = "normalize"
    /\ trace' = Append(trace, "normalize_headings")
    /\ document' = normalize_headings(document)
    /\ pc' = NextStep(pc)
    /\ UNCHANGED <<extractVars, cliVars, docPc, snapshot, lastOp, lastTitle, gitVars,
                   main_tag, main_diff_url, main_previous_tag, main_title,
                   main_softbreak, stdout>>

\* cli.py 223-229: with --title, update_title(document, title.format(tag=tag));
\* an exception aborts.
RunUpdateTitle ==
    /\ pc = "title"
    /\ \E t \in TitleOptions :
         /\ main_title' = t
         /\ IF t = None
            THEN /\ pc' = NextStep(pc)
                 /\ UNCHANGED <<document, trace, cliVars>>
            ELSE LET r == update_title(document, format_title(t.value, main_tag.value))
                 IN /\ trace' = Append(trace, "update_title")
                    /\ raised' = r.raised
                    /\ IF r.raised # NoError
                       THEN /\ abort("Failed to change title", <<>>, r.raised)
                            /\ UNCHANGED document
                       ELSE /\ document' = r.document
                            /\ pc' = NextStep(pc)
                            /\ UNCHANGED <<exited, exit_code, stderr>>
    /\ UNCHANGED <<extractVars, docPc, snapshot, lastOp, lastTitle, gitVars, main_tag,
                   main_diff_url, main_previous_tag, main_softbreak, stdout>>

\* cli.py 233-234: without softbreak, remove_softbreaks(document)
RunRemoveSoftbreaks ==
    /\ pc = "softbreak"
    /\ \E b \in BOOLEAN :
         /\ main_softbreak' = Bool(b)
         /\ IF ~b
            THEN /\ trace' = Append(trace, "remove_softbreaks")
                 /\ document' = remove_softbreaks(document)
            ELSE UNCHANGED <<document, trace>>
    /\ pc' = NextStep(pc)
    /\ UNCHANGED <<extractVars, cliVars, docPc, snapshot, lastOp, lastTitle, gitVars,
                   main_tag, main_diff_url, main_previous_tag, main_title, stdout>>

\* cli.py 236: print_stdout(renderer.render(document).strip()); _main
\* returns and the process exits with status 0.
PrintStdout ==
    /\ pc = "print"
    /\ trace' = Append(trace, "render")
    /\ stdout' = Append(stdout, Strip(RenderToken(document)))
    /\ pc' = NextStep(pc)
    /\ exited' = TRUE
    /\ exit_code' = 0
    /\ UNCHANGED <<extractVars, raised, stderr, docVars, gitVars, main_tag,
                   main_diff_url, main_previous_tag, main_title, main_softbreak>>

InitMain ==
    /\ ExtractIdle
    /\ DocIdle
    /\ raised = NoError
    /\ exited = FALSE
    /\ exit_code = 0
    /\ stderr = <<>>
    /\ \E repo \in MainRepos :
         /\ commits = repo.commits
         /\ tags = repo.tags
    /\ gitPc = "idle"
    /\ tag_name = ""
    /\ result = NoResult
    /\ pc = "tag"
    /\ main_tag \in TagOptions
    /\ main_diff_url = NotRead
    /\ main_previous_tag = NotRead
    /\ main_title = NotRead
    /\ main_softbreak = NotRead
    /\ stdout = <<>>
    /\ trace = <<>>

NextMain ==
    \/ ResolveTag
    \/ ResolvePreviousTag
    \/ ExtractRelease
    \/ AppendDiffUrl
    \/ ParseDocument
    \/ RunNormalizeHeadings
    \/ RunUpdateTitle
    \/ RunRemoveSoftbreaks
    \/ PrintStdout

SpecMain == InitMain /\ [][NextMain]_vars

(***************************************************************************)
(* Properties of a run of _main                                            *)
(***************************************************************************)
\* The run was started without --tag.
NoTagSupplied == trace # <<>> /\ trace[1] = "tag_from_head"

\* The tags that point at the HEAD commit.
TagsOnHead == {t \in DOMAIN tags : tags[t] = Len(commits)}

Messages(msg) == SelectSeq(stderr, LAMBDA e : e.msg = msg)

HeadAbortMessages ==
    {"No tag was provided and not tag is attached to 'HEAD'",
     "No tag was provided and 'HEAD' have more than one tag"}

\* C15: a run started without a tag uses the tag on HEAD exactly when one
\* tag points at HEAD, and then never prints a HEAD-tag error; with no tag
\* or several tags on HEAD it has exited with code 1 having done nothing but
\* the HEAD lookup (changelog not read, nothing written), its one message
\* being the matching error, which lists exactly the tags on HEAD when there
\* are several, and no tag was picked.
C15_TagFromHead ==
    NoTagSupplied =>
        IF Cardinality(TagsOnHead) = 1
        THEN /\ main_tag = Str(CHOOSE t \in TagsOnHead : TRUE)
             /\ \A i \in DOMAIN stderr : stderr[i].msg \notin HeadAbortMessages
        ELSE /\ main_tag = None
             /\ exited /\ exit_code = 1
             /\ trace = <<"tag_from_head">>
             /\ io = <<>> /\ text = <<"unset">> /\ stdout = <<>>
             /\ Len(stderr) = 1
             /\ ~stderr[1].warning
             /\ IF TagsOnHead = {}
                THEN stderr[1].msg = "No tag was provided and not tag is attached to 'HEAD'"
                ELSE /\ stderr[1].msg = "No tag was provided and 'HEAD' have more than one tag"
                     /\ Range(stderr[1].args) = TagsOnHead
                     /\ Len(stderr[1].args) = Cardinality(TagsOnHead)

\* A run without --tag that took HEAD's one tag and printed its release.
C15_Witness ==
    /\ NoTagSupplied
    /\ Cardinality(TagsOnHead) = 1
    /\ Len(commits) = 2
    /\ main_tag = Str("1.0.1")
    /\ pc = "done"
    /\ stdout # <<>>

\* A run without --tag on a HEAD with two tags, aborted.
C15_WitnessSeveral ==
    /\ NoTagSupplied
    /\ Cardinality(TagsOnHead) = 2
    /\ exited

\* A run without --tag on a HEAD with no tag, aborted.
C15_WitnessNone ==
    /\ NoTagSupplied
    /\ TagsOnHead = {}
    /\ exited

\* The previous tag was looked for (--diff-url without --previous-tag) and
\* none was found.
PreviousTagUnresolved ==
    /\ "find_previous_tag" \in Range(trace)
    /\ main_previous_tag = None

Warnings == SelectSeq(stderr, LAMBDA e : e.warning)

HasLink(token) == \E i \in DOMAIN iter_token_tree(token) : iter_token_tree(token)[i].kind = "Link"

\* C14: when the previous tag was looked for and not found, the run has
\* printed exactly one warning ("Failed to find previous tag" with the
\* TagNotFoundError when the tag is not in the repository, "No previous tag"
\* otherwise), was not ended by it but went on to the extraction, never
\* formats the diff url, ends early only for a start pattern without match
\* or a failed title, and otherwise prints the rendering of the extracted
\* release text, which holds no comparison link.
C14_Unresolved ==
    PreviousTagUnresolved =>
        /\ Len(Warnings) = 1
        /\ IF main_tag.value \in DOMAIN tags
           THEN Warnings[1].msg = "No previous tag" /\ Warnings[1].exc = NoError
           ELSE /\ Warnings[1].msg = "Failed to find previous tag"
                /\ Warnings[1].exc = TagNotFoundError(main_tag.value)
        /\ pc = "extract" \/ "extract_release" \in Range(trace)
        /\ "append_diff_url" \notin Range(trace)
        /\ exited /\ pc # "done" =>
              /\ stderr[Len(stderr)].msg \in {"No match for tag", "Failed to change title"}
              /\ stdout = <<>>
        /\ pc = "done" =>
              /\ exit_code = 0
              /\ text = Join(extract_release(io, start_pattern, end_pattern).lines)
              /\ ~HasLink(document)
              /\ stdout = <<Strip(RenderToken(document))>>
              /\ Range(stdout[1]) \cap {"Full Changelog:", "[", "]", "("} = {}
              /\ IsPrefix(<<"#", " ", ReleaseMark[main_tag.value]>>, stdout[1])
                    \/ main_title # None

\* A run for a tag the repository does not have, printed without a link.
C14_Witness ==
    /\ PreviousTagUnresolved
    /\ main_tag.value \notin DOMAIN tags
    /\ pc = "done"
    /\ Len(stdout) = 1
    /\ Len(stdout[1]) > 3

\* A run for a tag with no tagged ancestor, printed without a link.
C14_WitnessNoAncestor ==
    /\ PreviousTagUnresolved
    /\ main_tag.value \in DOMAIN tags
    /\ pc = "done"
    /\ Len(stdout) = 1

\* The diff url was formatted (a template and a previous tag were there)
\* and str.format raised.
FormatFailed ==
    /\ "append_diff_url" \in Range(trace)
    /\ format_diff_url(main_diff_url.value, main_tag.value,
                       main_previous_tag.value).raised # NoError

\* The template-format error: the abort message with the raw template.
TemplateFormatError ==
    Message("Failed to format string", main_diff_url.value,
            format_diff_url(main_diff_url.value, main_tag.value,
                            main_previous_tag.value).raised, FALSE)

\* C13: whenever formatting the diff url fails, the run has ended with the
\* template-format error showing the raw template as its last message, with
\* a non-zero exit code, and no document was parsed or printed.
C13_FormatFailureReported ==
    FormatFailed =>
        /\ exited /\ exit_code # 0
        /\ stderr # <<>> /\ stderr[Len(stderr)] = TemplateFormatError
        /\ document = NoDocument
        /\ stdout = <<>>

\* The part of C13 the code keeps: a template naming an unknown slot.
C13_UnknownSlotReported ==
    (FormatFailed /\ main_diff_url.value = UnknownSlotTemplate) =>
        /\ exited /\ exit_code # 0
        /\ stderr # <<>> /\ stderr[Len(stderr)] = TemplateFormatError
        /\ document = NoDocument
        /\ stdout = <<>>

\* Every failed formatting ends the run with a non-zero exit code and
\* nothing printed, whatever the message.
C13_FormatFailureEndsRun ==
    FormatFailed => exited /\ exit_code # 0 /\ document = NoDocument /\ stdout = <<>>

\* The run printed a document whose text had the comparison line added.
RenderedWithDiffUrl ==
    /\ pc = "done"
    /\ "append_diff_url" \in Range(trace)

Contains(sub, s) ==
    \E i \in 0..(Len(s) - Len(sub)) : SubSeq(s, i + 1, i + Len(sub)) = sub

\* The template with its two placeholders replaced.
ExpectedTarget ==
    [i \in 1..Len(main_diff_url.value) |->
        IF main_diff_url.value[i] = "{prev}" THEN main_previous_tag.value
        ELSE IF main_diff_url.value[i] = "{tag}" THEN main_tag.value
        ELSE main_diff_url.value[i]]

ExpectedLinkText == <<main_previous_tag.value, "...", main_tag.value>>

\* C11: a run that had a diff-url template and a previous tag, formatted the
\* url and printed its document, has printed the bold label followed by a
\* link whose text is <previous_tag>...<tag> and whose target is the
\* template with {prev} and {tag} replaced; the document holds that link
\* token right after the label.
C11_ComparisonLink ==
    RenderedWithDiffUrl =>
        /\ Contains(<<"**", "Full Changelog:", "**", " ", "[">> \o ExpectedLinkText
                        \o <<"]", "(">> \o ExpectedTarget \o <<")">>,
                    stdout[1])
        /\ \E k \in DOMAIN iter_token_tree(document) :
              LET cs == iter_token_tree(document)[k].children
              IN \E i \in 3..Len(cs) :
                    /\ cs[i] = Link(ExpectedTarget, <<RawText(ExpectedLinkText)>>)
                    /\ cs[i - 1] = RawText(<<" ">>)
                    /\ cs[i - 2] = Strong(<<RawText(<<"Full Changelog:">>)>>)

\* A printed run whose previous tag, found by the walk, differs from the tag.
C11_Witness ==
    /\ RenderedWithDiffUrl
    /\ "find_previous_tag" \in Range(trace)
    /\ main_tag = Str("1.0.1")
    /\ main_previous_tag = Str("1.0.0")
    /\ Len(stdout) = 1

\* The document was parsed from a text that had the comparison line added.
ParsedWithDiffUrl ==
    /\ "append_diff_url" \in Range(trace)
    /\ document # NoDocument

\* The release text as extract_release gave it, before line 215 added to it.
ExtractedText == Join(extract_release(io, start_pattern, end_pattern).lines)

ComparisonParagraph ==
    Paragraph(<<Strong(<<RawText(<<"Full Changelog:">>)>>),
                RawText(<<" ">>),
                Link(ExpectedTarget, <<RawText(ExpectedLinkText)>>)>>)

\* C12: in every document parsed from a release text with the comparison
\* line, the last direct child of the document is a paragraph holding the
\* label and the link and nothing else.
C12_OwnLastParagraph ==
    ParsedWithDiffUrl =>
        document.children[Len(document.children)] = ComparisonParagraph

\* What the code keeps of C12: the comparison line is a paragraph of its
\* own when the release text ends with a line terminator or its last line
\* is a heading.
C12_OwnLastParagraphAfterTerminator ==
    (/\ ParsedWithDiffUrl
     /\ \/ ExtractedText[Len(ExtractedText)] = NL
        \/ Len(extract_release(io, start_pattern, end_pattern).lines) = 1) =>
        document.children[Len(document.children)] = ComparisonParagraph

\* The comparison line merged into the paragraph that ends the release text.
C12_Merged ==
    /\ ParsedWithDiffUrl
    /\ pc = "done"
    /\ LET last == document.children[Len(document.children)]
       IN /\ last.kind = "Paragraph"
          /\ Len(last.children) > 3
          /\ last.children[1] = RawText(<<"x">>)

\* The steps of _main in the order of its statements.
CodeOrder ==
    <<"tag_from_head", "find_previous_tag", "extract_release", "append_diff_url",
      "parse", "normalize_headings", "update_title", "remove_softbreaks", "render">>

\* The steps performed so far were performed in the given order, none twice.
InOrder(order) ==
    \A i, j \in DOMAIN trace :
        i < j => PositionOf(trace[i], order) < PositionOf(trace[j], order)

\* C17 as stated: extraction, parsing, heading normalization, title, soft
\* breaks, then the tag walk, then the comparison line, then rendering.
C17_ClaimedOrder ==
    LET claimed == <<"tag_from_head", "extract_release", "parse", "normalize_headings",
                     "update_title", "remove_softbreaks", "find_previous_tag",
                     "append_diff_url", "render">>
    IN InOrder(claimed)

\* C17, amended: the steps of a run occur in the order HEAD-tag lookup (if
\* no tag is given), tag walk (if needed), extraction, comparison line added
\* to the text (if a template and a previous tag are there), parsing,
\* heading normalization, title replacement (if requested), soft-break
\* removal (if requested), rendering; nothing is parsed before the
\* extraction and nothing rendered before parsing and normalization.
C17_CodeOrder ==
    /\ InOrder(CodeOrder)
    /\ "parse" \in Range(trace) => "extract_release" \in Range(trace)
    /\ "normalize_headings" \in Range(trace) => "parse" \in Range(trace)
    /\ "render" \in Range(trace) => "normalize_headings" \in Range(trace)
    /\ \A i \in DOMAIN trace :
          trace[i] \in {"update_title", "remove_softbreaks"} =>
              "normalize_headings" \in Range(SubSeq(trace, 1, i))

\* A run that performed every step.
C17_Witness ==
    /\ trace = CodeOrder
    /\ pc = "done"

Errors == SelectSeq(stderr, LAMBDA e : ~e.warning)

\* C18: standard output is written at most once, and only by a run in which
\* the extraction, the formatting of the diff url (when there was one to
\* format), the heading normalization, the title replacement (when asked
\* for) and the soft-break handling were all performed without an error;
\* a run that printed an error or ended otherwise than by printing has a
\* non-zero exit code and an empty standard output.
C18_StdoutOnlyOnSuccess ==
    /\ Len(stdout) <= 1
    /\ stdout # <<>> =>
          /\ pc = "done" /\ exited /\ exit_code = 0
          /\ Errors = <<>>
          /\ trace[Len(trace)] = "render"
          /\ "extract_release" \in Range(trace)
          /\ extract_release(io, start_pattern, end_pattern).raised = NoError
          /\ (main_diff_url # None /\ main_previous_tag # None) =>
                /\ "append_diff_url" \in Range(trace)
                /\ ~FormatFailed
          /\ "normalize_headings" \in Range(trace)
          /\ main_title \notin {NotRead, None} => "update_title" \in Range(trace)
          /\ main_softbreak # NotRead
          /\ main_softbreak = Bool(FALSE) => "remove_softbreaks" \in Range(trace)
    /\ Errors # <<>> => exited /\ exit_code # 0 /\ stdout = <<>>
    /\ (exited /\ pc # "done") =>
          /\ exit_code # 0
          /\ stdout = <<>>
          /\ Len(Errors) = 1

\* A run aborted at its last fallible step, the title replacement.
C18_Witness ==
    /\ exited
    /\ pc = "exited"
    /\ stderr # <<>>
    /\ stderr[Len(stderr)].msg = "Failed to change title"
    /\ document # NoDocument
    /\ stdout = <<>>

\* A run that printed.
C18_WitnessPrinted ==
    /\ pc = "done"
    /\ Len(stdout) = 1
    /\ "update_title" \in Range(trace)
    /\ "append_diff_url" \in Range(trace)

====
